---- MODULE Spec2Model ----
(***************************************************************************)
(* Phishing Guard background service worker (v2.0): the per-tab scan       *)
(* coordinator.  One action per handler step; a handler is split exactly   *)
(* at its awaits (fetch, response.json(), saveState, storage.get), where   *)
(* other handlers may interleave.                                          *)
(***************************************************************************)
EXTENDS Integers, Sequences, FiniteSets, TLC

\* ---------------------------------------------------------------- bounds
MaxTabs == 1
MaxCalls == 2
MaxLoads == 1
MaxOps == 2
MaxSaveFails == 1
MaxWork == 6
MaxNavs == 1
MaxPageEvents == 4
MaxOverlays == 2

\* ----------------------------------------------------- program constants
HistoryCap == 100

Tabs == 1..MaxTabs

\* ------------------------------------------------------------- inputs
Urls == {"http://EVIL.example/a", "https://good.example/"}

DomainInputs == {"Evil.Example", "evil.example", "good.example"}

toLowerCase_Identity(s) == s

\* String.prototype.toLowerCase on the strings the model uses
toLowerCase(s) ==
    CASE s = "Evil.Example" -> "evil.example"
      [] s = "EVIL.example" -> "evil.example"
      [] OTHER -> s

\* new URL(url).hostname (before the lower-casing of getDomain)
hostname(url) ==
    CASE url = "http://EVIL.example/a" -> "EVIL.example"
      [] url = "https://good.example/" -> "good.example"
      [] OTHER -> "<throws>"

getDomain(url) ==
    IF hostname(url) = "<throws>" THEN "" ELSE toLowerCase(hostname(url))

\* Array.prototype.includes
includes(arr, x) == \E i \in 1..Len(arr) : arr[i] = x

filterNe_Identity(arr, x) == arr

filterNe_KeepsOnly(arr, x) == IF \E i \in 1..Len(arr) : arr[i] = x THEN <<x>> ELSE <<>>

\* Array.prototype.filter(d => d !== x)
RECURSIVE filterNe(_, _)
filterNe(arr, x) ==
    IF arr = <<>> THEN <<>>
    ELSE IF Head(arr) = x THEN filterNe(Tail(arr), x)
         ELSE <<Head(arr)>> \o filterNe(Tail(arr), x)

sliceLast_KeepsFirst(arr, n) == IF Len(arr) <= n THEN arr ELSE SubSeq(arr, 1, n)

\* Array.prototype.slice(-n)
sliceLast(arr, n) ==
    IF Len(arr) <= n THEN arr ELSE SubSeq(arr, Len(arr) - n + 1, Len(arr))

\* handleMessage 'getHistory': the number of entries handed to the popup
RecentCount == 20

reverse_Identity(arr) == arr

\* Array.prototype.reverse
reverse(arr) == [i \in 1..Len(arr) |-> arr[Len(arr) + 1 - i]]

\* object spread { ...a, ...b }
spread(a, b) ==
    [k \in (DOMAIN a) \cup (DOMAIN b) |-> IF k \in DOMAIN b THEN b[k] ELSE a[k]]

\* ------------------------------------------------ engine (backend) replies
\* result.analysis of a 200 reply of POST /scan
Analyses ==
    { [risk_score |-> 0,  risk_level |-> "safe",       is_phishing |-> FALSE, warnings |-> <<>>],
      [risk_score |-> 30, risk_level |-> "warning",    is_phishing |-> FALSE, warnings |-> <<"w">>],
      [risk_score |-> 50, risk_level |-> "suspicious", is_phishing |-> TRUE,  warnings |-> <<"w">>],
      [risk_score |-> 80, risk_level |-> "dangerous",  is_phishing |-> TRUE,  warnings |-> <<"w">>] }

NoAnalysis == [none |-> TRUE]

\* detector.analyze echoes the url it was given (result['url'] = url)
EngineReply(url, a) == spread([url |-> url], a)

\* --------------------------------------------- detector.py (backend engine)
\* A url is [scheme, host, port]: host is the sequence of the dot-separated
\* labels of the netloc, port is 0 when the netloc names none.
Schemes == {"http", "https"}

Hosts ==
    { <<"192", "168", "1", "5">>,
      <<"google", "com">>,
      <<"mail", "google", "com">>,
      <<"good", "com">>,
      <<"notgoogle", "com">>,
      <<"evil", "xyz">>,
      <<"PayPal-Login", "tk">>,
      <<"a", "b", "c", "d", "com">>,
      <<"paypal", "secure", "login", "verify", "evil", "xyz">> }

Ports == {0, 8080}

EngineUrls == [scheme : Schemes, host : Hosts, port : Ports]

\* content is None, or a dict given by its keys and the keys whose value is truthy
NoContent == [none |-> TRUE]

ContentKeys == {"has_password_field", "external_form_action", "is_https"}

Contents ==
    {NoContent}
      \cup {[keys |-> {}, truthy |-> {}]}
      \cup {[keys |-> ContentKeys, truthy |-> tr] : tr \in SUBSET ContentKeys}
      \cup {[keys |-> ContentKeys \ {"is_https"}, truthy |-> ContentKeys \ {"is_https"}]}

SUSPICIOUS_KEYWORDS ==
    {"login", "signin", "verify", "secure", "account", "update", "confirm", "password",
     "credential", "banking", "paypal", "apple", "microsoft", "google", "amazon", "netflix"}

\* the suspicious TLDs, without their leading dot
SUSPICIOUS_TLDS ==
    {"tk", "ml", "ga", "cf", "gq", "xyz", "top", "pw", "click", "link", "work", "date"}

\* entries of the trusted list, as label sequences
TRUSTED_DOMAINS ==
    { <<"google", "com">>, <<"paypal", "com">>, <<"github", "com">>, <<"amazon", "com">> }

BRANDS == {"google", "facebook", "paypal", "amazon", "microsoft", "apple", "netflix", "bank"}

\* str.lower on the labels the model uses
lower(label) == IF label = "PayPal-Login" THEN "paypal-login" ELSE label

\* the keywords and brand tokens that are substrings of a (lower-cased) label
Substrings(label) ==
    CASE label = "google" -> {"google"}
      [] label = "notgoogle" -> {"google"}
      [] label = "paypal" -> {"paypal"}
      [] label = "paypal-login" -> {"paypal", "login"}
      [] label = "secure" -> {"secure"}
      [] label = "login" -> {"login"}
      [] label = "verify" -> {"verify"}
      [] OTHER -> {}

\* a label matching \d{1,3}
Digits3(label) == label \in {"192", "168", "1", "5"}

\* urlparse(url).netloc.lower(): the labels and the port, "host:port" when a port is named
netloc(url) ==
    [labels |-> [i \in 1..Len(url.host) |-> lower(url.host[i])], port |-> url.port]

\* re.match(r'^\d{1,3}\.\d{1,3}\.\d{1,3}\.\d{1,3}$', netloc)
ip_address(h) ==
    h.port = 0 /\ Len(h.labels) = 4 /\ \A i \in 1..4 : Digits3(h.labels[i])

\* tldextract.extract(url).registered_domain: domain and suffix of the host,
\* whatever the port; empty for an IP address
registered_domain(url) ==
    IF Len(url.host) < 2 \/ \A i \in 1..Len(url.host) : Digits3(url.host[i])
    THEN <<>>
    ELSE SubSeq(url.host, Len(url.host) - 1, Len(url.host))

\* hostname == trusted
equals(h, trusted) == h.port = 0 /\ h.labels = trusted

\* hostname.endswith('.' + trusted)
endswith_dot(h, trusted) ==
    /\ h.port = 0
    /\ Len(h.labels) > Len(trusted)
    /\ SubSeq(h.labels, Len(h.labels) - Len(trusted) + 1, Len(h.labels)) = trusted

is_trusted_HostnameOnly(h, domain) ==
    \E trusted \in TRUSTED_DOMAINS : equals(h, trusted) \/ endswith_dot(h, trusted)

is_trusted(h, domain) ==
    \E trusted \in TRUSTED_DOMAINS :
       \/ equals(h, trusted) \/ endswith_dot(h, trusted)
       \/ domain = trusted

\* hostname.count('.') > 4
excessive_subdomains(h) == Len(h.labels) - 1 > 4

\* some keyword is a substring of the netloc
keyword_hit(h) ==
    \E i \in 1..Len(h.labels) : Substrings(h.labels[i]) \cap SUSPICIOUS_KEYWORDS # {}

check_url_patterns(url, h) ==
    (IF ip_address(h) THEN 40 ELSE 0)
      + (IF excessive_subdomains(h) THEN 15 ELSE 0)
      + (IF keyword_hit(h) THEN 10 ELSE 0)

\* hostname.endswith(tld) for some suspicious tld
check_tld(h) ==
    IF h.port = 0 /\ Len(h.labels) >= 2 /\ h.labels[Len(h.labels)] \in SUSPICIOUS_TLDS
    THEN 25 ELSE 0

check_https(scheme) == IF scheme # "https" THEN 20 ELSE 0

check_brand_impersonation(h) ==
    IF /\ \E i \in 1..Len(h.labels) : Substrings(h.labels[i]) \cap BRANDS # {}
       /\ ~is_trusted(h, <<>>)
    THEN 30 ELSE 0

\* content.get(key), as a truth value
get(content, key) == key \in content.truthy

check_content(content) ==
    (IF get(content, "has_password_field") /\ get(content, "external_form_action")
     THEN 25 ELSE 0)
      + (IF ~get(content, "is_https") THEN 10 ELSE 0)

\* `if content:` (None and the empty dict are falsy)
truthy(content) == content # NoContent /\ content.keys # {}

risk_level_Exclusive(score) ==
    IF score > 70 THEN "dangerous"
    ELSE IF score > 40 THEN "suspicious"
    ELSE IF score > 20 THEN "warning"
    ELSE "safe"

\* analyze: the risk level of the final score
risk_level(score) ==
    IF score >= 70 THEN "dangerous"
    ELSE IF score >= 40 THEN "suspicious"
    ELSE IF score >= 20 THEN "warning"
    ELSE "safe"

\* analyze: is_phishing is set with the two upper levels
is_phishing(score) == score >= 40

max(a, b) == IF a >= b THEN a ELSE b

analyze(url, content) ==
    LET result == [url |-> url, is_phishing |-> FALSE, risk_score |-> 0,
                   risk_level |-> "safe", warnings |-> <<>>, details |-> {}]
        h == netloc(url)
        domain == registered_domain(url) IN
    IF is_trusted(h, domain)
    THEN [result EXCEPT !.details = {"trusted_domain"},
                        !.risk_score = max(0, result.risk_score - 30)]
    ELSE LET score == result.risk_score
                        + check_url_patterns(url, h)
                        + check_tld(h)
                        + check_https(url.scheme)
                        + check_brand_impersonation(h)
                        + (IF truthy(content) THEN check_content(content) ELSE 0) IN
         [result EXCEPT !.risk_score = score,
                        !.risk_level = risk_level(score),
                        !.is_phishing = is_phishing(score)]

NotAnalyzed == [pending |-> TRUE]

NoRequest == [none |-> TRUE]

\* the requests POST /api/scan may carry
Requests == [url : EngineUrls, content : Contents, result : {NotAnalyzed}]

\* ------------------------------------------------------------- state
VARIABLES
    isEnabled,          \* state.isEnabled
    settings,           \* state.settings (the fields the worker reads)
    whitelist,          \* state.whitelist
    blacklist,          \* state.blacklist
    stats,              \* state.stats
    scanHistory,        \* state.scanHistory
    currentTabStatus,   \* state.currentTabStatus
    stored,             \* chrome.storage.local
    fails,              \* number of chrome.storage.local.set calls that rejected
    calls,              \* scanUrl / scanWithContent invocations suspended at an await, or finished
    loads,              \* loadState invocations suspended at storage.get
    badge,              \* last chrome.action.setBadgeText per tab
    out,                \* notifications and tab messages emitted by the last step
    fetchCount,         \* number of POST /scan requests sent
    clock,              \* new Date()
    closed,             \* tabs for which onRemoved has fired
    ops,                \* number of popup / dashboard requests handled
    navs,               \* per tab, onCompleted handlers suspended at chrome.tabs.get
    request,            \* backend: the (url, content) handed to detector.analyze and its result
    page,               \* content script: its variables and overlays during one page load
    lastRet             \* the call that returned in the last step and its value

vars == <<isEnabled, settings, whitelist, blacklist, stats, scanHistory,
          currentTabStatus, stored, fails, calls, loads, badge, out, fetchCount,
          clock, closed, ops, navs, lastRet, request, page>>

DefaultSettings ==
    [phishing_protection |-> TRUE, real_time_alerts |-> TRUE, auto_block_dangerous |-> TRUE]

\* the popup and the dashboard send the whole settings object with one toggle flipped
SettingsInputs ==
    { [settings EXCEPT !.phishing_protection = ~@],
      [settings EXCEPT !.real_time_alerts = ~@],
      [settings EXCEPT !.auto_block_dangerous = ~@] }

NoSnapshot == [empty |-> TRUE]

\* the last step returned nothing to a caller
NoReturn == [none |-> TRUE]

\* state.currentTabStatus[tabId] === undefined
Absent == [absent |-> TRUE]

HasEntry(t) == currentTabStatus[t] # Absent

\* the object saveState hands to chrome.storage.local.set
Snapshot ==
    [isEnabled |-> isEnabled, stats |-> stats,
     scanHistory |-> sliceLast(scanHistory, HistoryCap),
     settings |-> settings, whitelist |-> whitelist, blacklist |-> blacklist]

\* an entry written by an earlier session of the worker
OldEntry(i) ==
    [url |-> "https://good.example/", tabId |-> 0, timestamp |-> 0 - i,
     risk_score |-> 0, risk_level |-> "safe", is_phishing |-> FALSE, warnings |-> <<>>]

\* what an earlier session may have left in chrome.storage.local
StoredInit ==
    { NoSnapshot,
      [isEnabled |-> TRUE, stats |-> [totalScans |-> HistoryCap, threatsBlocked |-> 0],
       scanHistory |-> [i \in 1..HistoryCap |-> OldEntry(HistoryCap + 1 - i)],
       settings |-> DefaultSettings, whitelist |-> <<>>, blacklist |-> <<>>] }

WorkerInit ==
    /\ isEnabled = TRUE
    /\ settings = DefaultSettings
    /\ whitelist = <<>>
    /\ blacklist = <<>>
    /\ stats = [totalScans |-> 0, threatsBlocked |-> 0]
    /\ scanHistory = <<>>
    /\ currentTabStatus = [t \in Tabs |-> Absent]
    /\ stored \in StoredInit
    /\ fails = 0
    /\ calls = <<>>
    /\ loads = <<>>
    /\ badge = [t \in Tabs |-> "none"]
    /\ out = {}
    /\ fetchCount = 0
    /\ clock = 0
    /\ closed = {}
    /\ ops = 0
    /\ navs = [t \in Tabs |-> 0]
    /\ lastRet = NoReturn

\* no content script is part of the worker's state
NoPage == [none |-> TRUE]

\* the service worker after construction; the backend is a separate process
Init == WorkerInit /\ request = NoRequest /\ page = NoPage

\* ------------------------------------------------------------ helpers
Pending == [pending |-> TRUE]

ModuleEnabled_MasterSwitch == isEnabled

\* scanUrl / scanWithContent: state.settings.modules.phishing_protection
ModuleEnabled == settings.phishing_protection

\* scanUrl: return { skipped: true, reason: 'Module disabled' }
SkippedScan == [skipped |-> TRUE, reason |-> "Module disabled"]

\* scanWithContent: return { skipped: true }
SkippedContent == [skipped |-> TRUE]

WhitelistResult_Unknown(url, domain) ==
    [url |-> url, domain |-> domain, is_phishing |-> FALSE, risk_score |-> 0,
     risk_level |-> "unknown", warnings |-> <<>>, whitelisted |-> TRUE]

\* scanUrl: the result synthesized for a whitelisted domain
WhitelistResult(url, domain) ==
    [url |-> url, domain |-> domain, is_phishing |-> FALSE, risk_score |-> 0,
     risk_level |-> "safe", warnings |-> <<>>, whitelisted |-> TRUE]

BlacklistResult_NoWarning(url, domain) ==
    [url |-> url, domain |-> domain, is_phishing |-> TRUE, risk_score |-> 100,
     risk_level |-> "dangerous", warnings |-> <<>>, blacklisted |-> TRUE]

\* scanUrl: the result synthesized for a blacklisted domain
BlacklistResult(url, domain) ==
    [url |-> url, domain |-> domain, is_phishing |-> TRUE, risk_score |-> 100,
     risk_level |-> "dangerous", warnings |-> <<"Domain is in your blacklist">>,
     blacklisted |-> TRUE]

CacheHit_AnyOtherUrl(t, url, forceRescan) ==
    ~forceRescan /\ HasEntry(t) /\ currentTabStatus[t].url # url

\* scanUrl: the cache test
CacheHit(t, url, forceRescan) ==
    ~forceRescan /\ HasEntry(t) /\ currentTabStatus[t].url = url

\* scanUrl: the result built from a reply
MkScanResult(url, t, ts, analysis) ==
    spread([url |-> url, tabId |-> t, timestamp |-> ts], analysis)

\* scanUrl: state.currentTabStatus[tabId] = scanResult
StoreResult_KeepNewer(status, t, scanResult) ==
    IF status[t] # Absent /\ "timestamp" \in DOMAIN status[t]
    THEN status ELSE [status EXCEPT ![t] = scanResult]

StoreResult(status, t, scanResult) == [status EXCEPT ![t] = scanResult]

StatsAfterScan_AlwaysThreat(st, analysis) ==
    [totalScans |-> st.totalScans + 1, threatsBlocked |-> st.threatsBlocked + 1]

\* scanUrl: the stats update on a reply
StatsAfterScan(st, analysis) ==
    [totalScans |-> st.totalScans + 1,
     threatsBlocked |-> st.threatsBlocked + (IF analysis.is_phishing THEN 1 ELSE 0)]

ErrorResult_Rethrow(url, message) == [exception |-> message]

\* scanUrl: the value returned from the catch block
ErrorResult(url, message) ==
    [url |-> url, error |-> message, risk_level |-> "unknown", is_phishing |-> FALSE]

\* scanWithContent: the value returned from the catch block
ContentError(message) == [error |-> message]

ContentMerge_Replace(prior, analysis) == spread(analysis, [contentScanned |-> TRUE])

\* scanWithContent: { ...state.currentTabStatus[tabId], ...result.analysis, contentScanned: true }
ContentMerge(prior, analysis) ==
    spread(spread(prior, analysis), [contentScanned |-> TRUE])

showPhishingWarning(t, analysis) ==
    IF ~settings.real_time_alerts THEN {}
    ELSE { [kind |-> "notification", tab |-> t, id |-> "phishing"],
           [kind |-> "showWarning", tab |-> t, type |-> "danger"] }

showSuspiciousWarning(t, analysis) ==
    IF ~settings.real_time_alerts THEN {}
    ELSE { [kind |-> "notification", tab |-> t, id |-> "suspicious"],
           [kind |-> "showWarning", tab |-> t, type |-> "warning"] }

notifyContentScript(t, analysis) ==
    { [kind |-> "scanResult", tab |-> t, level |-> analysis.risk_level] }

WarningsFor_DangerousOnly(t, analysis) ==
    IF analysis.risk_level = "dangerous" /\ settings.auto_block_dangerous
    THEN showPhishingWarning(t, analysis) ELSE {}

\* scanUrl after saveState: the warnings keyed on the risk level
WarningsFor(t, analysis) ==
    IF analysis.risk_level = "dangerous"
    THEN (IF settings.auto_block_dangerous THEN showPhishingWarning(t, analysis) ELSE {})
    ELSE IF analysis.risk_level = "suspicious" THEN showSuspiciousWarning(t, analysis)
    ELSE {}

\* the exploration budget spent: an engine call counts three times, a settings
\* or override request and a load twice, a rejected storage write once
Work == 3 * Len(calls) + 2 * ops + 2 * Len(loads) + fails

saveState_BeforeUpdate ==
    \/ /\ stored' = Snapshot
       /\ fails' = fails
    \/ /\ fails < MaxSaveFails
       /\ Work < MaxWork
       /\ stored' = stored
       /\ fails' = fails + 1

\* saveState: chrome.storage.local.set either stores the snapshot or rejects
\* (the rejection is caught and logged)
saveState ==
    \/ /\ stored' = Snapshot'
       /\ fails' = fails
    \/ /\ fails < MaxSaveFails
       /\ Work < MaxWork
       /\ stored' = stored
       /\ fails' = fails + 1

\* what the step handed back to its caller
Returned(kind, t, url, value) == [kind |-> kind, tab |-> t, url |-> url, value |-> value]

\* an invocation suspended at its first await
NewCall(kind, t, url) ==
    [kind |-> kind, tab |-> t, url |-> url, pc |-> "fetch",
     analysis |-> NoAnalysis, ret |-> Pending, saveFailed |-> FALSE]

\* an invocation that has returned
Finished(call) ==
    [call EXCEPT !.pc = "done", !.analysis = NoAnalysis, !.ret = Pending,
                 !.saveFailed = FALSE]

storeVars == <<stored, fails>>
configVars == <<isEnabled, settings, whitelist, blacklist, ops>>
coreVars == <<stats, scanHistory, currentTabStatus>>

\* ------------------------------------------------------------ scanUrl
scanUrl(t, url, forceRescan) ==
    LET domain == getDomain(url) IN
    /\ t \in Tabs \ closed
    /\ UNCHANGED <<configVars, stats, scanHistory, storeVars, loads, clock, closed, request, page>>
    /\ IF ~ModuleEnabled THEN
            /\ lastRet' = Returned("scan", t, url, SkippedScan)
            /\ out' = {}
            /\ UNCHANGED <<currentTabStatus, calls, badge, fetchCount>>
       ELSE IF includes(whitelist, domain) THEN
            /\ currentTabStatus' = [currentTabStatus EXCEPT ![t] = WhitelistResult(url, domain)]
            /\ badge' = [badge EXCEPT ![t] = "safe"]
            /\ lastRet' = Returned("scan", t, url, WhitelistResult(url, domain))
            /\ out' = {}
            /\ UNCHANGED <<calls, fetchCount>>
       ELSE IF includes(blacklist, domain) THEN
            /\ currentTabStatus' = [currentTabStatus EXCEPT ![t] = BlacklistResult(url, domain)]
            /\ badge' = [badge EXCEPT ![t] = "dangerous"]
            /\ out' = showPhishingWarning(t, BlacklistResult(url, domain))
            /\ lastRet' = Returned("scan", t, url, BlacklistResult(url, domain))
            /\ UNCHANGED <<calls, fetchCount>>
       ELSE IF CacheHit(t, url, forceRescan) THEN
            /\ lastRet' = Returned("scan", t, url, currentTabStatus[t])
            /\ out' = {}
            /\ UNCHANGED <<currentTabStatus, calls, badge, fetchCount>>
       ELSE
            /\ Len(calls) < MaxCalls /\ Work + 3 <= MaxWork
            /\ badge' = [badge EXCEPT ![t] = "scanning"]
            /\ calls' = Append(calls, NewCall("scan", t, url))
            /\ fetchCount' = fetchCount + 1
            /\ out' = {}
            /\ lastRet' = NoReturn
            /\ UNCHANGED currentTabStatus

ScanCatch_KeepsBadge(c, message) ==
    /\ badge' = badge
    /\ calls' = [calls EXCEPT ![c] = Finished(@)]
    /\ lastRet' = Returned("scan", calls[c].tab, calls[c].url,
                           ErrorResult(calls[c].url, message))
    /\ out' = {}

\* the catch block of scanUrl
ScanCatch(c, message) ==
    /\ badge' = [badge EXCEPT ![calls[c].tab] = "error"]
    /\ calls' = [calls EXCEPT ![c] = Finished(@)]
    /\ lastRet' = Returned("scan", calls[c].tab, calls[c].url,
                           ErrorResult(calls[c].url, message))
    /\ out' = {}

AtScan(c, pc) == c \in 1..Len(calls) /\ calls[c].kind = "scan" /\ calls[c].pc = pc

ScanFetchReturn_Retry(c) ==
    /\ AtScan(c, "fetch")
    /\ UNCHANGED <<configVars, coreVars, storeVars, loads, clock, closed, navs, request, page>>
    /\ \/ /\ fetchCount' = fetchCount + 1
          /\ out' = {}
          /\ lastRet' = NoReturn
          /\ UNCHANGED <<calls, badge>>
       \/ /\ calls' = [calls EXCEPT ![c].pc = "json"]
          /\ out' = {}
          /\ lastRet' = NoReturn
          /\ UNCHANGED <<badge, fetchCount>>

ScanFetchReturn_StoresError(c) ==
    /\ AtScan(c, "fetch")
    /\ UNCHANGED <<configVars, stats, scanHistory, storeVars, loads, fetchCount, clock,
                   closed, navs, request, page>>
    /\ \/ /\ ScanCatch(c, "Failed to fetch")
          /\ currentTabStatus' = [currentTabStatus EXCEPT ![calls[c].tab] =
                                     ErrorResult(calls[c].url, "Failed to fetch")]
       \/ /\ ScanCatch(c, "API error")
          /\ currentTabStatus' = [currentTabStatus EXCEPT ![calls[c].tab] =
                                     ErrorResult(calls[c].url, "API error")]
       \/ /\ calls' = [calls EXCEPT ![c].pc = "json"]
          /\ out' = {}
          /\ lastRet' = NoReturn
          /\ UNCHANGED <<badge, currentTabStatus>>

\* await fetch(...) settles: rejected, non-2xx, or 2xx
ScanFetchReturn(c) ==
    /\ AtScan(c, "fetch")
    /\ UNCHANGED <<configVars, coreVars, storeVars, loads, fetchCount, clock, closed, navs, request, page>>
    /\ \/ ScanCatch(c, "Failed to fetch")
       \/ ScanCatch(c, "API error")
       \/ /\ calls' = [calls EXCEPT ![c].pc = "json"]
          /\ out' = {}
          /\ lastRet' = NoReturn
          /\ UNCHANGED badge

\* await response.json() rejects
ScanJsonFail(c) ==
    /\ AtScan(c, "json")
    /\ ScanCatch(c, "Unexpected token")
    /\ UNCHANGED <<configVars, coreVars, storeVars, loads, fetchCount, clock, closed, navs, request, page>>

\* the body parses but has no analysis: totalScans++ runs, then
\* result.analysis.is_phishing throws a TypeError into the catch block
ScanJsonNoAnalysis(c) ==
    /\ AtScan(c, "json")
    /\ stats' = [stats EXCEPT !.totalScans = @ + 1]
    /\ ScanCatch(c, "TypeError")
    /\ UNCHANGED <<configVars, scanHistory, currentTabStatus, storeVars, loads,
                   fetchCount, clock, closed, navs, request, page>>

\* the body is { analysis }: stats, tab status, history, then saveState()
ScanJsonReturn(c, a) ==
    /\ AtScan(c, "json")
    /\ LET analysis == EngineReply(calls[c].url, a)
           scanResult == MkScanResult(calls[c].url, calls[c].tab, clock, analysis) IN
       /\ stats' = StatsAfterScan(stats, analysis)
       /\ currentTabStatus' = StoreResult(currentTabStatus, calls[c].tab, scanResult)
       /\ scanHistory' = Append(scanHistory, scanResult)
       /\ UNCHANGED <<configVars, loads, badge, fetchCount, closed, navs, request, page>>
       /\ saveState
       /\ calls' = [calls EXCEPT ![c].pc = "save", ![c].analysis = analysis,
                                 ![c].ret = scanResult,
                                 ![c].saveFailed = (fails' # fails)]
    /\ clock' = clock + 1
    /\ out' = {}
    /\ lastRet' = NoReturn

ScanSaveReturn_SaveThrows(c) ==
    /\ AtScan(c, "save")
    /\ IF calls[c].saveFailed
       THEN ScanCatch(c, "storage")
       ELSE /\ badge' = [badge EXCEPT ![calls[c].tab] = calls[c].analysis.risk_level]
            /\ out' = WarningsFor(calls[c].tab, calls[c].analysis)
                        \cup notifyContentScript(calls[c].tab, calls[c].analysis)
            /\ calls' = [calls EXCEPT ![c] = Finished(@)]
            /\ lastRet' = Returned("scan", calls[c].tab, calls[c].url, calls[c].ret)
    /\ UNCHANGED <<configVars, coreVars, storeVars, loads, fetchCount, clock, closed, navs, request, page>>

\* await saveState() returns: badge, warnings, scanResult message, return
ScanSaveReturn(c) ==
    /\ AtScan(c, "save")
    /\ badge' = [badge EXCEPT ![calls[c].tab] = calls[c].analysis.risk_level]
    /\ out' = WarningsFor(calls[c].tab, calls[c].analysis)
                \cup notifyContentScript(calls[c].tab, calls[c].analysis)
    /\ calls' = [calls EXCEPT ![c] = Finished(@)]
    /\ lastRet' = Returned("scan", calls[c].tab, calls[c].url, calls[c].ret)
    /\ UNCHANGED <<configVars, coreVars, storeVars, loads, fetchCount, clock, closed, navs, request, page>>

\* ---------------------------------------------------- scanWithContent
scanWithContent(t, url) ==
    /\ t \in Tabs \ closed
    /\ UNCHANGED <<configVars, coreVars, storeVars, loads, badge, clock, closed, navs, request, page>>
    /\ out' = {}
    /\ IF ~ModuleEnabled THEN
            /\ lastRet' = Returned("content", t, url, SkippedContent)
            /\ UNCHANGED <<calls, fetchCount>>
       ELSE
            /\ Len(calls) < MaxCalls /\ Work + 3 <= MaxWork
            /\ calls' = Append(calls, NewCall("content", t, url))
            /\ fetchCount' = fetchCount + 1
            /\ lastRet' = NoReturn

\* the catch block of scanWithContent
ContentCatch(c, message) ==
    /\ calls' = [calls EXCEPT ![c] = Finished(@)]
    /\ lastRet' = Returned("content", calls[c].tab, calls[c].url, ContentError(message))
    /\ out' = {}

AtContent(c, pc) == c \in 1..Len(calls) /\ calls[c].kind = "content" /\ calls[c].pc = pc

ContentFetchReturn(c) ==
    /\ AtContent(c, "fetch")
    /\ UNCHANGED <<configVars, coreVars, storeVars, loads, badge, fetchCount, clock, closed, navs, request, page>>
    /\ \/ ContentCatch(c, "Failed to fetch")
       \/ ContentCatch(c, "API error")
       \/ /\ calls' = [calls EXCEPT ![c].pc = "json"]
          /\ out' = {}
          /\ lastRet' = NoReturn

ContentJsonFail(c) ==
    /\ AtContent(c, "json")
    /\ ContentCatch(c, "Unexpected token")
    /\ UNCHANGED <<configVars, coreVars, storeVars, loads, badge, fetchCount, clock, closed, navs, request, page>>

\* the body parses but has no analysis: the spread of undefined adds nothing,
\* contentScanned is set, then result.analysis.risk_level throws a TypeError
ContentJsonNoAnalysis(c) ==
    /\ AtContent(c, "json")
    /\ currentTabStatus' =
          IF HasEntry(calls[c].tab)
          THEN [currentTabStatus EXCEPT ![calls[c].tab] = spread(@, [contentScanned |-> TRUE])]
          ELSE currentTabStatus
    /\ ContentCatch(c, "TypeError")
    /\ UNCHANGED <<configVars, stats, scanHistory, storeVars, loads, badge, fetchCount,
                   clock, closed, navs, request, page>>

\* the body is { analysis }: merge into the tab's entry, badge, and for a
\* phishing verdict threatsBlocked++ and saveState()
ContentJsonReturn(c, a) ==
    /\ AtContent(c, "json")
    /\ LET analysis == EngineReply(calls[c].url, a)
           t == calls[c].tab IN
       /\ currentTabStatus' =
             IF HasEntry(t)
             THEN [currentTabStatus EXCEPT ![t] = ContentMerge(@, analysis)]
             ELSE currentTabStatus
       /\ badge' = [badge EXCEPT ![t] = analysis.risk_level]
       /\ out' = {}
       /\ UNCHANGED <<configVars, scanHistory, loads, fetchCount, clock, closed, navs, request, page>>
       /\ IF analysis.is_phishing THEN
               /\ stats' = [stats EXCEPT !.threatsBlocked = @ + 1]
               /\ calls' = [calls EXCEPT ![c].pc = "save", ![c].analysis = analysis,
                                         ![c].ret = analysis]
               /\ lastRet' = NoReturn
               /\ saveState
          ELSE
               /\ calls' = [calls EXCEPT ![c] = Finished(@)]
               /\ lastRet' = Returned("content", t, calls[c].url, analysis)
               /\ UNCHANGED <<stats, storeVars>>

ContentSaveReturn(c) ==
    /\ AtContent(c, "save")
    /\ out' = IF calls[c].analysis.risk_level = "dangerous"
              THEN showPhishingWarning(calls[c].tab, calls[c].analysis) ELSE {}
    /\ calls' = [calls EXCEPT ![c] = Finished(@)]
    /\ lastRet' = Returned("content", calls[c].tab, calls[c].url, calls[c].ret)
    /\ UNCHANGED <<configVars, coreVars, storeVars, loads, badge, fetchCount, clock, closed, navs, request, page>>

\* ------------------------------------------------------- tab lifecycle
\* chrome.tabs.onRemoved
TabRemoved(t) ==
    /\ t \in Tabs \ closed
    /\ currentTabStatus' = [currentTabStatus EXCEPT ![t] = Absent]
    /\ closed' = closed \cup {t}
    /\ out' = {}
    /\ lastRet' = NoReturn
    /\ UNCHANGED <<configVars, stats, scanHistory, storeVars, calls, loads, badge,
                   fetchCount, clock, navs, request, page>>

\* chrome.tabs.onActivated, after chrome.tabs.get has returned the tab
TabActivated(t) ==
    /\ t \in Tabs \ closed
    /\ HasEntry(t)
    /\ badge' = [badge EXCEPT ![t] = currentTabStatus[t].risk_level]
    /\ out' = {}
    /\ lastRet' = NoReturn
    /\ UNCHANGED <<configVars, coreVars, storeVars, calls, loads, fetchCount, clock, closed, navs, request, page>>

\* details.frameId of a webNavigation event: 0 is the main frame
FrameIds == {0, 1}

IsMainFrame_Any(frameId) == TRUE

\* the negation of `details.frameId !== 0`
IsMainFrame(frameId) == frameId = 0

\* what a listener that returns without a value hands back
Undefined == [undefined |-> TRUE]

NavCompleted_IgnoresSwitch(t, frameId) ==
    /\ t \in Tabs \ closed
    /\ out' = {}
    /\ UNCHANGED <<configVars, coreVars, storeVars, calls, loads, badge, fetchCount,
                   clock, closed, request, page>>
    /\ IF ~IsMainFrame(frameId)
       THEN /\ navs' = navs
            /\ lastRet' = Returned("navigation", t, "", Undefined)
       ELSE /\ navs[t] < MaxNavs
            /\ navs' = [navs EXCEPT ![t] = @ + 1]
            /\ lastRet' = NoReturn

\* chrome.webNavigation.onCompleted up to `await chrome.tabs.get(details.tabId)`
NavCompleted(t, frameId) ==
    /\ t \in Tabs \ closed
    /\ out' = {}
    /\ UNCHANGED <<configVars, coreVars, storeVars, calls, loads, badge, fetchCount,
                   clock, closed, request, page>>
    /\ IF ~IsMainFrame(frameId) \/ ~isEnabled
       THEN /\ navs' = navs
            /\ lastRet' = Returned("navigation", t, "", Undefined)
       ELSE /\ navs[t] < MaxNavs
            /\ navs' = [navs EXCEPT ![t] = @ + 1]
            /\ lastRet' = NoReturn

\* chrome.tabs.get has returned a tab whose url is http(s): await scanUrl(tab.url, tabId)
Navigated(t, url) ==
    /\ navs[t] > 0
    /\ navs' = [navs EXCEPT ![t] = @ - 1]
    /\ scanUrl(t, url, FALSE)

\* chrome.tabs.get has returned a tab on a chrome:// or chrome-extension:// page
NavInternalPage(t) ==
    /\ t \in Tabs \ closed
    /\ navs[t] > 0
    /\ navs' = [navs EXCEPT ![t] = @ - 1]
    /\ badge' = [badge EXCEPT ![t] = "inactive"]
    /\ out' = {}
    /\ lastRet' = Returned("navigation", t, "", Undefined)
    /\ UNCHANGED <<configVars, coreVars, storeVars, calls, loads, fetchCount, clock, closed, request, page>>

\* chrome.tabs.get rejects because the tab is gone: the listener's catch logs
NavTabGone(t) ==
    /\ t \in closed
    /\ navs[t] > 0
    /\ navs' = [navs EXCEPT ![t] = @ - 1]
    /\ out' = {}
    /\ lastRet' = Returned("navigation", t, "", Undefined)
    /\ UNCHANGED <<configVars, coreVars, storeVars, calls, loads, badge, fetchCount,
                   clock, closed, request, page>>

\* handleMessage 'scanCurrentTab'
ScanCurrentTab(t, url) == scanUrl(t, url, TRUE) /\ UNCHANGED navs

\* handleMessage 'contentScan'
ContentScan(t, url) == scanWithContent(t, url)

\* ------------------------------------------------- override registry
addToWhitelist(d) ==
    LET domain == toLowerCase(d) IN
    /\ ops < MaxOps /\ Work + 2 <= MaxWork
    /\ ops' = ops + 1
    /\ blacklist' = filterNe(blacklist, domain)
    /\ whitelist' = IF includes(whitelist, domain) THEN whitelist
                    ELSE Append(whitelist, domain)
    /\ out' = {}
    /\ lastRet' = NoReturn
    /\ UNCHANGED <<isEnabled, settings, coreVars, calls, loads, badge, fetchCount,
                   clock, closed, navs, request, page>>
    /\ saveState

addToBlacklist(d) ==
    LET domain == toLowerCase(d) IN
    /\ ops < MaxOps /\ Work + 2 <= MaxWork
    /\ ops' = ops + 1
    /\ whitelist' = filterNe(whitelist, domain)
    /\ blacklist' = IF includes(blacklist, domain) THEN blacklist
                    ELSE Append(blacklist, domain)
    /\ out' = {}
    /\ lastRet' = NoReturn
    /\ UNCHANGED <<isEnabled, settings, coreVars, calls, loads, badge, fetchCount,
                   clock, closed, navs, request, page>>
    /\ saveState

\* ------------------------------------------------ settings and switch
\* handleMessage 'updateSettings'
UpdateSettings(s) ==
    /\ ops < MaxOps /\ Work + 2 <= MaxWork
    /\ ops' = ops + 1
    /\ settings' = spread(settings, s)
    /\ out' = {}
    /\ lastRet' = NoReturn
    /\ UNCHANGED <<isEnabled, whitelist, blacklist, coreVars, calls, loads, badge,
                   fetchCount, clock, closed, navs, request, page>>
    /\ saveState

\* handleMessage 'toggleProtection'
ToggleProtection ==
    /\ ops < MaxOps /\ Work + 2 <= MaxWork
    /\ ops' = ops + 1
    /\ isEnabled' = ~isEnabled
    /\ out' = {}
    /\ lastRet' = NoReturn
    /\ UNCHANGED <<settings, whitelist, blacklist, coreVars, calls, loads, badge,
                   fetchCount, clock, closed, navs, request, page>>
    /\ saveState

\* handleMessage 'getHistory'
GetHistory ==
    /\ lastRet' = [kind |-> "getHistory",
                   value |-> [history |-> reverse(sliceLast(scanHistory, RecentCount))]]
    /\ out' = {}
    /\ UNCHANGED <<configVars, coreVars, storeVars, calls, loads, badge, fetchCount,
                   clock, closed, navs, request, page>>

\* ----------------------------------------------------------- loadState
\* onInstalled / onStartup: loadState() sends chrome.storage.local.get
LoadStart ==
    /\ Len(loads) < MaxLoads /\ Work + 2 <= MaxWork
    /\ loads' = Append(loads, [pc |-> "get", saved |-> stored])
    /\ out' = {}
    /\ lastRet' = NoReturn
    /\ UNCHANGED <<configVars, coreVars, storeVars, calls, badge, fetchCount, clock, closed, navs, request, page>>

\* the get returns: every key that was saved replaces the in-memory value
LoadReturn(i) ==
    /\ i \in 1..Len(loads)
    /\ loads[i].pc = "get"
    /\ loads' = [loads EXCEPT ![i] = [pc |-> "done", saved |-> NoSnapshot]]
    /\ out' = {}
    /\ lastRet' = NoReturn
    /\ LET saved == loads[i].saved IN
       IF saved = NoSnapshot
       THEN UNCHANGED <<isEnabled, stats, scanHistory, settings, whitelist, blacklist>>
       ELSE /\ isEnabled' = saved.isEnabled
            /\ stats' = saved.stats
            /\ scanHistory' = sliceLast(saved.scanHistory, HistoryCap)
            /\ settings' = spread(settings, saved.settings)
            /\ whitelist' = saved.whitelist
            /\ blacklist' = saved.blacklist
    /\ UNCHANGED <<ops, currentTabStatus, storeVars, calls, badge, fetchCount, clock, closed, navs, request, page>>

\* ---------------------------------------------------------------- Next
Next ==
    \/ \E t \in Tabs, f \in FrameIds : NavCompleted(t, f)
    \/ \E t \in Tabs, u \in Urls : Navigated(t, u)
    \/ \E t \in Tabs : NavInternalPage(t)
    \/ \E t \in Tabs : NavTabGone(t)
    \/ \E t \in Tabs, u \in Urls : ScanCurrentTab(t, u)
    \/ \E t \in Tabs, u \in Urls : ContentScan(t, u)
    \/ \E c \in 1..MaxCalls : ScanFetchReturn(c)
    \/ \E c \in 1..MaxCalls : ScanJsonFail(c)
    \/ \E c \in 1..MaxCalls : ScanJsonNoAnalysis(c)
    \/ \E c \in 1..MaxCalls, a \in Analyses : ScanJsonReturn(c, a)
    \/ \E c \in 1..MaxCalls : ScanSaveReturn(c)
    \/ \E c \in 1..MaxCalls : ContentFetchReturn(c)
    \/ \E c \in 1..MaxCalls : ContentJsonFail(c)
    \/ \E c \in 1..MaxCalls : ContentJsonNoAnalysis(c)
    \/ \E c \in 1..MaxCalls, a \in Analyses : ContentJsonReturn(c, a)
    \/ \E c \in 1..MaxCalls : ContentSaveReturn(c)
    \/ \E t \in Tabs : TabRemoved(t)
    \/ \E t \in Tabs : TabActivated(t)
    \/ \E d \in DomainInputs : addToWhitelist(d)
    \/ \E d \in DomainInputs : addToBlacklist(d)
    \/ \E s \in SettingsInputs : UpdateSettings(s)
    \/ ToggleProtection
    \/ GetHistory
    \/ LoadStart
    \/ \E i \in 1..MaxLoads : LoadReturn(i)

Spec == Init /\ [][Next]_vars

\* the steps by which the scan call c resumes from an await
ScanResumes(c) ==
    \/ ScanFetchReturn(c)
    \/ ScanJsonFail(c)
    \/ ScanJsonNoAnalysis(c)
    \/ \E a \in Analyses : ScanJsonReturn(c, a)
    \/ ScanSaveReturn(c)

\* every promise a scan call awaits settles: the event loop then resumes the call
\* a first start: nothing stored by an earlier session
FreshInit == Init /\ stored = NoSnapshot

FairSpec ==
    /\ FreshInit
    /\ [][Next]_vars
    /\ \A c \in 1..MaxCalls : WF_vars(ScanResumes(c))

\* -------------------------------------------------------- the backend
\* a request for /api/scan is waiting to be analysed
EngineInit == WorkerInit /\ stored = NoSnapshot /\ request \in Requests /\ page = NoPage

\* POST /api/scan: detector.analyze(url, content)
Analyze ==
    /\ request.result = NotAnalyzed
    /\ request' = [request EXCEPT !.result = analyze(request.url, request.content)]
    /\ UNCHANGED <<configVars, coreVars, storeVars, calls, loads, badge, out, fetchCount,
                   clock, closed, navs, lastRet, page>>

EngineNext == Analyze

EngineSpec == EngineInit /\ [][EngineNext]_vars

\* ------------------------------------------- content.js (content script)
\* One page load of one tab. The page is fixed by what its location gives the
\* local checks; the script's variables and the overlay elements it has put
\* into document.body follow.
PageResponses ==
    { EngineReply(u, a) : u \in Urls, a \in Analyses }
        \cup {SkippedContent, ContentError("Failed to fetch"), Undefined}

WarningTypes == {"danger", "warning"}

\* the inputs the focusin listener tells apart
Fields == {"password", "card", "cvv", "otp", "text"}

Pages ==
    { [trusted |-> tr, https |-> h, otherRisk |-> r,
       autoScan |-> "waiting", alertOverlay |-> 0, hasShownAlert |-> FALSE,
       attached |-> {}, created |-> 0, timers |-> 0,
       scanBadge |-> "null", badgeTimers |-> 0,
       events |-> 0, last |-> "init", left |-> FALSE] :
      tr \in BOOLEAN, h \in BOOLEAN, r \in BOOLEAN }

PageInit == WorkerInit /\ stored = NoSnapshot /\ request = NoRequest /\ page \in Pages

workerVars == <<isEnabled, settings, whitelist, blacklist, stats, scanHistory,
                currentTabStatus, stored, fails, calls, loads, badge, out, fetchCount,
                clock, closed, ops, navs, lastRet, request>>

isTrustedDomain(p) == p.trusted

\* getLocalRisks: no HTTPS, or one of the host and form checks
getLocalRisks(p) ==
    (IF p.https THEN {} ELSE {"Connection is not encrypted"})
        \cup (IF p.otherRisk THEN {"host or form risk"} ELSE {})

\* alertOverlay = document.createElement('div'); ...; document.body.appendChild(alertOverlay)
appendOverlay(p) ==
    [p EXCEPT !.alertOverlay = p.created + 1,
              !.attached = @ \cup {p.created + 1},
              !.created = @ + 1]

AlertBlocked_OverlayOnly(p) == p.alertOverlay # 0

\* showSecurityAlert: if (alertOverlay || hasShownAlert) return
AlertBlocked(p) == p.alertOverlay # 0 \/ p.hasShownAlert

showSecurityAlert(p, level) ==
    IF AlertBlocked(p) THEN p
    ELSE appendOverlay([p EXCEPT !.hasShownAlert = TRUE])

showCredentialAlert(p) ==
    IF p.alertOverlay # 0 THEN p ELSE appendOverlay(p)

\* showQuickBadge: replaces the badge and starts its 3 s removal timer
showQuickBadge(p, type) ==
    [p EXCEPT !.scanBadge = type, !.badgeTimers = @ + 1]

onCredentialAccess(p) ==
    IF p.hasShownAlert THEN p
    ELSE IF isTrustedDomain(p) THEN showQuickBadge(p, "safe")
    ELSE IF getLocalRisks(p) # {}
         THEN showCredentialAlert([p EXCEPT !.hasShownAlert = TRUE])
    ELSE IF ~p.https THEN showQuickBadge(p, "warning")
    ELSE p

onFormSubmit(p) ==
    IF ~isTrustedDomain(p) /\ getLocalRisks(p) # {}
    THEN showQuickBadge(p, "warning")
    ELSE p

\* the exploration budget of a page: events from outside the script
PageEvent(name) ==
    /\ ~page.left
    /\ page.events < MaxPageEvents
    /\ UNCHANGED workerVars

Handled(p, name) == [p EXCEPT !.events = @ + 1, !.last = name]

\* the script may not hold more overlay elements than the model has names for
WithinOverlays(p) == p.created <= MaxOverlays

\* init: autoScanPage() runs once the document is complete, up to its await
autoScanPage ==
    /\ ~page.left
    /\ page.autoScan = "waiting"
    /\ page' = [page EXCEPT !.autoScan = "sent", !.last = "load"]
    /\ UNCHANGED workerVars

\* chrome.runtime.sendMessage({ action: 'contentScan' }) rejects: the catch is empty
ContentScanRejected ==
    /\ ~page.left
    /\ page.autoScan = "sent"
    /\ page' = [page EXCEPT !.autoScan = "done", !.last = "contentScan rejected"]
    /\ UNCHANGED workerVars

\* the background's answer to contentScan arrives
ContentScanResponse(response) ==
    /\ ~page.left
    /\ page.autoScan = "sent"
    /\ LET p == [page EXCEPT !.autoScan = "done", !.last = "contentScan response"]
           phishing == "is_phishing" \in DOMAIN response /\ response.is_phishing
           level == IF "risk_level" \in DOMAIN response THEN response.risk_level
                    ELSE "undefined"
           q == IF phishing \/ level = "dangerous" THEN showSecurityAlert(p, "danger")
                ELSE IF level = "suspicious" THEN showSecurityAlert(p, "warning")
                ELSE p IN
       /\ WithinOverlays(q)
       /\ page' = q
    /\ UNCHANGED workerVars

\* handleMessage: { action: 'showWarning', type, analysis } from the background
handleMessage(type) ==
    /\ PageEvent("showWarning")
    /\ LET q == showSecurityAlert(Handled(page, "showWarning"), type) IN
       /\ WithinOverlays(q)
       /\ page' = q

\* the focusin listener of setupInputMonitoring
FocusIn(field) ==
    /\ PageEvent("focusin")
    /\ LET p == Handled(page, "focusin")
           q == IF field = "text" THEN p ELSE onCredentialAccess(p) IN
       /\ WithinOverlays(q)
       /\ page' = q

\* the submit listener of setupInputMonitoring
Submit(hasPassword) ==
    /\ PageEvent("submit")
    /\ page' = IF hasPassword THEN onFormSubmit(Handled(page, "submit"))
               ELSE Handled(page, "submit")

\* a click on pg-close or pg-proceed: dismissAlert fades the overlay and
\* starts the 200 ms timer that removes it
dismissAlert ==
    /\ PageEvent("dismiss")
    /\ page.attached # {}
    /\ page' = IF page.alertOverlay # 0
               THEN [Handled(page, "dismiss") EXCEPT !.timers = @ + 1]
               ELSE Handled(page, "dismiss")

\* the timer of dismissAlert fires: alertOverlay?.remove(); alertOverlay = null
DismissTimer ==
    /\ ~page.left
    /\ page.timers > 0
    /\ page' = [page EXCEPT !.timers = @ - 1,
                            !.attached = @ \ {page.alertOverlay},
                            !.alertOverlay = 0,
                            !.last = "dismiss timer"]
    /\ UNCHANGED workerVars

\* the timer of showQuickBadge fires: scanBadge?.remove(); scanBadge = null
BadgeTimer ==
    /\ ~page.left
    /\ page.badgeTimers > 0
    /\ page' = [page EXCEPT !.badgeTimers = @ - 1, !.scanBadge = "null",
                            !.last = "badge timer"]
    /\ UNCHANGED workerVars

\* a click on pg-leave: window.location.href = 'about:blank' ends the page load
LeavePage ==
    /\ PageEvent("leave")
    /\ page.attached # {}
    /\ page' = [Handled(page, "leave") EXCEPT !.left = TRUE]

PageNext ==
    \/ autoScanPage
    \/ ContentScanRejected
    \/ \E r \in PageResponses : ContentScanResponse(r)
    \/ \E type \in WarningTypes : handleMessage(type)
    \/ \E f \in Fields : FocusIn(f)
    \/ \E b \in BOOLEAN : Submit(b)
    \/ dismissAlert
    \/ DismissTimer
    \/ BadgeTimer
    \/ LeavePage

PageSpec == PageInit /\ [][PageNext]_vars

\* =====================================================================
\* Properties
\* =====================================================================
IsAlert(e) == e.kind \in {"notification", "showWarning"}

\* the step is a call of scanUrl(url, t, _)
ScanCalled(t, url) == scanUrl(t, url, TRUE) \/ scanUrl(t, url, FALSE)

\* the step processes a 2xx reply with an analysis for scan call c
ReplyProcessed(c) ==
    /\ c \in 1..Len(calls)
    /\ calls[c].kind = "scan" /\ calls[c].pc = "json"
    /\ calls'[c].pc = "save"

\* C1: when two scans of one tab with different URLs overlap, the reply that is
\* processed makes the tab's status the result of its own scan, whichever of
\* the two was called first and whether or not the other reply has been
\* processed already: the reply that arrives last decides the status.
C1_LastWriteWins ==
    [][\A c, d \in 1..MaxCalls :
          ( /\ ReplyProcessed(c)
            /\ d \in 1..Len(calls) /\ d # c
            /\ calls[d].kind = "scan"
            /\ calls[d].tab = calls[c].tab
            /\ calls[d].url # calls[c].url )
          => /\ currentTabStatus'[calls[c].tab] = calls'[c].ret
             /\ currentTabStatus'[calls[c].tab].url = calls[c].url
             /\ currentTabStatus'[calls[c].tab].risk_level = calls'[c].analysis.risk_level]_vars

\* the scan called first is processed after the scan called second and owns the status
C1_Witness ==
    /\ Len(calls) = 2
    /\ calls[1].kind = "scan" /\ calls[2].kind = "scan"
    /\ calls[1].pc = "save" /\ calls[2].pc = "save"
    /\ calls[1].tab = calls[2].tab
    /\ calls[1].url # calls[2].url
    /\ calls[2].ret.timestamp < calls[1].ret.timestamp
    /\ currentTabStatus[calls[1].tab] = calls[1].ret

\* C2: once a tab has been removed, the tab status map holds no entry for it.
C2_ClosedTabHasNoEntry == \A t \in closed : ~HasEntry(t)

\* what scanUrl hands back and stores for a blacklisted domain, per the claim
IsBlacklistVerdict(r) ==
    /\ r.risk_score = 100
    /\ r.risk_level = "dangerous"
    /\ r.is_phishing = TRUE
    /\ r.warnings = <<"Domain is in your blacklist">>

BlacklistedScanOutcome(t) ==
    /\ lastRet' # NoReturn
    /\ "risk_score" \in DOMAIN lastRet'.value
    /\ IsBlacklistVerdict(lastRet'.value)
    /\ currentTabStatus'[t] = lastRet'.value
    /\ fetchCount' = fetchCount
    /\ calls' = calls

\* C3 (as stated): in every reachable state a scan of a blacklisted domain
\* returns and stores the score-100 dangerous result and calls no engine.
C3_Original ==
    [][\A t \in Tabs, u \in Urls :
          (ScanCalled(t, u) /\ includes(blacklist, getDomain(u)))
          => BlacklistedScanOutcome(t)]_vars

\* C3 (amended): while the phishing_protection module is enabled, a scan of a
\* blacklisted domain returns and stores the score-100 dangerous result with
\* the single blacklist warning and calls no engine.
C3_BlacklistShortCircuit ==
    [][\A t \in Tabs, u \in Urls :
          ( /\ ScanCalled(t, u)
            /\ settings.phishing_protection
            /\ includes(blacklist, getDomain(u)) )
          => BlacklistedScanOutcome(t)]_vars

C3_Witness ==
    /\ lastRet # NoReturn
    /\ lastRet.kind = "scan"
    /\ "blacklisted" \in DOMAIN lastRet.value
    /\ includes(blacklist, getDomain(lastRet.url))
    /\ currentTabStatus[lastRet.tab] = lastRet.value
    /\ fetchCount = 0

WhitelistedScanOutcome(t) ==
    /\ lastRet' # NoReturn
    /\ "risk_score" \in DOMAIN lastRet'.value
    /\ lastRet'.value.risk_score = 0
    /\ lastRet'.value.risk_level = "safe"
    /\ lastRet'.value.is_phishing = FALSE
    /\ currentTabStatus'[t] = lastRet'.value
    /\ fetchCount' = fetchCount
    /\ calls' = calls
    /\ \A e \in out' : ~IsAlert(e)

\* C4 (as stated): a scan of a domain that is whitelisted and not blacklisted
\* returns and stores the score-0 safe result, calls no engine, raises no alert.
C4_Original ==
    [][\A t \in Tabs, u \in Urls :
          ( /\ ScanCalled(t, u)
            /\ includes(whitelist, getDomain(u))
            /\ ~includes(blacklist, getDomain(u)) )
          => WhitelistedScanOutcome(t)]_vars

\* C4 (amended): while the phishing_protection module is enabled, a scan of a
\* domain that is whitelisted and not blacklisted returns and stores the
\* score-0 safe result, calls no engine and raises no alert.
C4_WhitelistShortCircuit ==
    [][\A t \in Tabs, u \in Urls :
          ( /\ ScanCalled(t, u)
            /\ settings.phishing_protection
            /\ includes(whitelist, getDomain(u))
            /\ ~includes(blacklist, getDomain(u)) )
          => WhitelistedScanOutcome(t)]_vars

C4_Witness ==
    /\ lastRet # NoReturn
    /\ lastRet.kind = "scan"
    /\ "whitelisted" \in DOMAIN lastRet.value
    /\ includes(whitelist, getDomain(lastRet.url))
    /\ currentTabStatus[lastRet.tab] = lastRet.value
    /\ fetchCount = 0
    /\ out = {}

\* the step is the failure return of a scanUrl call
ScanFailed ==
    /\ lastRet' # NoReturn
    /\ lastRet'.kind = "scan"
    /\ "error" \in DOMAIN lastRet'.value

\* C5: a scan whose engine call fails returns riskLevel unknown, isPhishing
\* false and the failure description, leaves totalScans and threatsBlocked
\* as they were and emits no alert.
C5_FailedScanLeavesStats ==
    [][ScanFailed =>
          /\ lastRet'.value.risk_level = "unknown"
          /\ lastRet'.value.is_phishing = FALSE
          /\ lastRet'.value.error \in {"Failed to fetch", "API error",
                                       "Unexpected token", "TypeError"}
          /\ stats' = stats
          /\ \A e \in out' : ~IsAlert(e)]_vars

\* a value scanUrl or scanWithContent may resolve to: a result, a skipped
\* marker or an error marker
IsResolution(v) ==
    \/ "skipped" \in DOMAIN v
    \/ "error" \in DOMAIN v
    \/ "risk_level" \in DOMAIN v

\* C6: whatever the engine or the network does, a call of scanUrl or
\* scanWithContent hands its caller a result, a skipped marker or an error
\* marker, never an exception.
C6_NeverThrows ==
    (lastRet # NoReturn /\ lastRet.kind \in {"scan", "content"})
       => IsResolution(lastRet.value)

\* a reply without an analysis made the call throw inside its try block
C6_Witness ==
    /\ lastRet # NoReturn
    /\ "error" \in DOMAIN lastRet.value
    /\ lastRet.value.error = "TypeError"

\* C7: the in-memory history never holds more than 100 entries.
C7_HistoryCapacity == Len(scanHistory) <= HistoryCap

\* C8: totalScans and threatsBlocked never decrease.
C8_StatsMonotone ==
    [][ /\ stats'.totalScans >= stats.totalScans
        /\ stats'.threatsBlocked >= stats.threatsBlocked ]_vars

\* C9: processing a successful engine reply of a scan adds exactly 1 to
\* totalScans and 1 to threatsBlocked iff the analysis is phishing; a scan
\* resolved by the module switch, an override or the cache changes neither.
C9_StatsPerScan ==
    [][ /\ \A c \in 1..MaxCalls :
              ReplyProcessed(c) =>
                 /\ stats'.totalScans = stats.totalScans + 1
                 /\ stats'.threatsBlocked = stats.threatsBlocked
                       + (IF calls'[c].analysis.is_phishing THEN 1 ELSE 0)
        /\ \A t \in Tabs, u \in Urls :
              (ScanCalled(t, u) /\ calls' = calls) => stats' = stats ]_vars

\* a phishing reply of a scan has been processed
C9_Witness ==
    \E c \in 1..Len(calls) :
        /\ calls[c].kind = "scan" /\ calls[c].pc = "save"
        /\ calls[c].analysis.is_phishing
        /\ stats.totalScans >= 1 /\ stats.threatsBlocked >= 1

CachedScanOutcome(t) ==
    /\ lastRet' # NoReturn
    /\ lastRet'.value = currentTabStatus[t]
    /\ fetchCount' = fetchCount
    /\ calls' = calls
    /\ UNCHANGED <<currentTabStatus, scanHistory, stats>>

CacheCase(t, u) ==
    /\ scanUrl(t, u, FALSE)
    /\ ~includes(whitelist, getDomain(u))
    /\ ~includes(blacklist, getDomain(u))
    /\ HasEntry(t)
    /\ currentTabStatus[t].url = u

\* C10 (as stated): a non-forced scan of a domain in neither list, for a tab
\* whose cached entry has the same url, returns the cached result, calls no
\* engine and leaves tab status, history and stats unchanged.
C10_Original ==
    [][\A t \in Tabs, u \in Urls : CacheCase(t, u) => CachedScanOutcome(t)]_vars

\* C10 (amended): the same, while the phishing_protection module is enabled.
C10_CacheHit ==
    [][\A t \in Tabs, u \in Urls :
          (CacheCase(t, u) /\ settings.phishing_protection)
          => CachedScanOutcome(t)]_vars

\* a scan has just returned the entry an earlier engine scan stored
C10_Witness ==
    /\ lastRet # NoReturn
    /\ lastRet.kind = "scan"
    /\ "timestamp" \in DOMAIN lastRet.value
    /\ out = {}
    /\ currentTabStatus[lastRet.tab] = lastRet.value
    /\ \A c \in 1..Len(calls) : calls[c].pc = "done"

\* the scan call c has sent its request and has not yet processed the reply
AwaitingEngine(c) ==
    c \in 1..Len(calls) /\ calls[c].kind = "scan" /\ calls[c].pc \in {"fetch", "json"}

\* C11: a scan call for a tab and url issued while an earlier scan call for the
\* same tab and url is still awaiting the engine sends no further request.
C11_ConcurrentDedupe ==
    [][\A t \in Tabs, u \in Urls :
          ( /\ ScanCalled(t, u)
            /\ \E c \in 1..Len(calls) :
                  AwaitingEngine(c) /\ calls[c].tab = t /\ calls[c].url = u )
          => fetchCount' = fetchCount]_vars

\* the step is a call of scanWithContent(url, t, _)
ContentCalled(t, url) == scanWithContent(t, url)

\* C12: while the phishing_protection module is disabled, scanUrl and
\* scanWithContent return a skipped marker, send no request, leave tab status,
\* history, stats and the override lists unchanged and emit no badge, alert or
\* message.
C12_DisabledModuleSkips ==
    [][\A t \in Tabs, u \in Urls :
          ((ScanCalled(t, u) \/ ContentCalled(t, u)) /\ ~settings.phishing_protection)
          => /\ lastRet' # NoReturn
             /\ "skipped" \in DOMAIN lastRet'.value
             /\ lastRet'.value.skipped = TRUE
             /\ fetchCount' = fetchCount
             /\ calls' = calls
             /\ out' = {}
             /\ UNCHANGED <<currentTabStatus, scanHistory, stats, whitelist,
                            blacklist, badge>>]_vars

\* a call was skipped although the master switch is on and the tab has an entry
C12_Witness ==
    /\ lastRet # NoReturn
    /\ "skipped" \in DOMAIN lastRet.value
    /\ ~settings.phishing_protection
    /\ isEnabled
    /\ \E t \in Tabs : HasEntry(t)

\* C13: no domain is in both the whitelist and the blacklist.
C13_ListsDisjoint ==
    \A i \in 1..Len(whitelist), j \in 1..Len(blacklist) : whitelist[i] # blacklist[j]

\* both lists are in use and a stored snapshot has been loaded
C13_Witness ==
    /\ whitelist # <<>>
    /\ blacklist # <<>>
    /\ \E i \in 1..Len(loads) : loads[i].pc = "done"

\* the members of an override list
Members(list) == {list[i] : i \in 1..Len(list)}

\* the normalized domains the model's inputs stand for
NormalDomains == {"evil.example", "good.example"}

\* the normalized domain an input spelling stands for
NormalOf(d) == IF d \in {"Evil.Example", "evil.example"} THEN "evil.example" ELSE d

\* C14: addToBlacklist(d) leaves d in the blacklist and not in the whitelist,
\* also right after addToWhitelist(d) has put it into the whitelist, and
\* addToWhitelist(d) symmetrically; the membership of every other domain is
\* unchanged.
C14_MoveBetweenLists ==
    [][\A d \in DomainInputs :
          /\ addToBlacklist(d) =>
                /\ NormalOf(d) \in Members(blacklist')
                /\ NormalOf(d) \notin Members(whitelist')
                /\ Members(blacklist') \ {NormalOf(d)} = Members(blacklist) \ {NormalOf(d)}
                /\ Members(whitelist') \ {NormalOf(d)} = Members(whitelist) \ {NormalOf(d)}
          /\ addToWhitelist(d) =>
                /\ NormalOf(d) \in Members(whitelist')
                /\ NormalOf(d) \notin Members(blacklist')
                /\ Members(whitelist') \ {NormalOf(d)} = Members(whitelist) \ {NormalOf(d)}
                /\ Members(blacklist') \ {NormalOf(d)} = Members(blacklist) \ {NormalOf(d)}]_vars

\* evil.example was whitelisted (the stored snapshot still says so, the second
\* write was rejected) and has then been blacklisted
C14_Witness ==
    /\ ops = 2
    /\ stored # NoSnapshot
    /\ "evil.example" \in Members(stored.whitelist)
    /\ "evil.example" \in Members(blacklist)
    /\ "evil.example" \notin Members(whitelist)

NoDuplicates(list) == \A i, j \in 1..Len(list) : list[i] = list[j] => i = j

\* C15: addToWhitelist and addToBlacklist called for a domain that the list
\* already holds, in whatever letter case, leave both lists as they are, and
\* no list holds a domain twice (entries are the lower-cased domains).
C15_AddIdempotent ==
    [][ /\ \A d \in DomainInputs :
              /\ (addToWhitelist(d) /\ NormalOf(d) \in Members(whitelist))
                    => (whitelist' = whitelist /\ blacklist' = blacklist)
              /\ (addToBlacklist(d) /\ NormalOf(d) \in Members(blacklist))
                    => (whitelist' = whitelist /\ blacklist' = blacklist)
        /\ NoDuplicates(whitelist') /\ NoDuplicates(blacklist')
        /\ Members(whitelist') \subseteq NormalDomains
        /\ Members(blacklist') \subseteq NormalDomains ]_vars

\* the same domain has been added twice and the list holds it once
C15_Witness ==
    /\ ops = 2
    /\ whitelist = <<"evil.example">>
    /\ blacklist = <<>>
    /\ stored # NoSnapshot
    /\ stored.whitelist = <<"evil.example">>
    /\ fails = 1

\* the scan call c resumes after saveState and returns its result
ScanCompleted(c) == AtScan(c, "save") /\ calls'[c].pc = "done"

\* the step sends a showWarning message to tab t
WarnsTab(t) == \E m \in out' : m.kind = "showWarning" /\ m.tab = t

ContentReplyProcessed(c) ==
    /\ AtContent(c, "json")
    /\ \/ calls'[c].pc = "save"
       \/ /\ calls'[c].pc = "done"
          /\ lastRet' # NoReturn
          /\ "error" \notin DOMAIN lastRet'.value

\* the analysis of the reply processed in the step
ContentAnalysis(c) == IF calls'[c].pc = "save" THEN calls'[c].analysis ELSE lastRet'.value

\* C17: a successful scanWithContent increments totalScans by 1, threatsBlocked
\* by 1 iff the analysis has is_phishing, and appends its result to the history.
C17_ContentBookkeeping ==
    [][\A c \in 1..MaxCalls :
          ContentReplyProcessed(c) =>
             /\ stats'.totalScans = stats.totalScans + 1
             /\ stats'.threatsBlocked =
                   stats.threatsBlocked + (IF ContentAnalysis(c).is_phishing THEN 1 ELSE 0)
             /\ Len(scanHistory') = Len(scanHistory) + 1]_vars

\* C18: a successful scanWithContent for a tab with a cached result stores the
\* prior entry overlaid with the fields of the analysis and contentScanned =
\* TRUE, every other field of the prior entry keeping its value; for a tab
\* without a cached result it creates no entry.
C18_ContentMergesIntoEntry ==
    [][\A c \in 1..MaxCalls :
          ContentReplyProcessed(c) =>
             LET t == calls[c].tab
                 prior == currentTabStatus[t]
                 after == currentTabStatus'[t]
                 analysis == ContentAnalysis(c) IN
             IF HasEntry(t)
             THEN /\ DOMAIN after = DOMAIN prior \cup DOMAIN analysis \cup {"contentScanned"}
                  /\ after.contentScanned = TRUE
                  /\ \A k \in DOMAIN analysis \ {"contentScanned"} : after[k] = analysis[k]
                  /\ \A k \in DOMAIN prior \ (DOMAIN analysis \cup {"contentScanned"}) :
                        after[k] = prior[k]
                  /\ \A k \in {"tabId", "timestamp", "whitelisted", "blacklisted"}
                              \cap DOMAIN prior : after[k] = prior[k]
             ELSE currentTabStatus' = currentTabStatus]_vars

\* a content scan has been merged into the entry of an engine scan, whose
\* timestamp and tabId it kept
C18_Witness ==
    \E t \in Tabs :
       /\ HasEntry(t)
       /\ "contentScanned" \in DOMAIN currentTabStatus[t]
       /\ "timestamp" \in DOMAIN currentTabStatus[t]
       /\ currentTabStatus[t].tabId = t

NoScanTriggered ==
    /\ navs' = navs
    /\ calls' = calls
    /\ fetchCount' = fetchCount

\* C20: a navigation-completed event whose frameId is not 0 triggers no scan:
\* no handler is left waiting to scan, no request is sent, and tab status,
\* history, stats and the badge are unchanged.
C20_SubframeIgnored ==
    [][\A t \in Tabs, f \in FrameIds \ {0} :
          NavCompleted(t, f) =>
             /\ NoScanTriggered
             /\ UNCHANGED <<currentTabStatus, scanHistory, stats, badge>>
             /\ out' = {}]_vars

\* the listener has returned although protection has been on throughout, no
\* tab was closed and no badge was set: the event was a subframe's
C20_Witness ==
    /\ lastRet # NoReturn
    /\ lastRet.kind = "navigation"
    /\ isEnabled /\ ops = 0 /\ loads = <<>>
    /\ closed = {}
    /\ \A t \in Tabs : navs[t] = 0 /\ badge[t] = "none"
    /\ calls = <<>>

\* an earlier scan call of tab t for url has returned
ScanReturnedFor(t, url) ==
    \E c \in 1..Len(calls) :
       calls[c].kind = "scan" /\ calls[c].tab = t /\ calls[c].url = url /\ calls[c].pc = "done"

\* a non-forced scan of url for tab t while the module is enabled and the
\* domain is in neither override list
PlainScanCalled(t, url) ==
    /\ scanUrl(t, url, FALSE)
    /\ ModuleEnabled
    /\ ~includes(whitelist, getDomain(url))
    /\ ~includes(blacklist, getDomain(url))

\* C21 as stated, read for an enabled module and a domain in neither list: the
\* scan of the same url that follows a failed scan of the tab (its badge still
\* shows the failure) calls the engine even without forceRescan.
C21_Original ==
    [][\A t \in Tabs, u \in Urls :
          (PlainScanCalled(t, u) /\ badge[t] = "error" /\ ScanReturnedFor(t, u))
          => fetchCount' = fetchCount + 1]_vars

\* C21: a request is sent only by the step that calls scanUrl or
\* scanWithContent, one per call; a failed scan sends no further request and
\* stores nothing; and a non-forced scan (module enabled, domain in neither
\* list) calls the engine exactly if the tab holds no cached result for the
\* url, so a result cached before the failure still answers it.
C21_NoRetry ==
    [][ /\ fetchCount' # fetchCount =>
              /\ fetchCount' = fetchCount + 1
              /\ Len(calls') = Len(calls) + 1
              /\ \E t \in Tabs, u \in Urls : ScanCalled(t, u) \/ ContentCalled(t, u)
        /\ ScanFailed =>
              /\ fetchCount' = fetchCount
              /\ currentTabStatus' = currentTabStatus
              /\ Len(calls') = Len(calls)
        /\ \A t \in Tabs, u \in Urls :
              PlainScanCalled(t, u) =>
                 (fetchCount' = fetchCount + 1
                    <=> ~(HasEntry(t) /\ currentTabStatus[t].url = u)) ]_vars

\* the scan of a url failed, nothing was stored, and the next scan of the
\* same url for the tab has sent a second request
C21_Witness ==
    /\ Len(calls) = 2
    /\ calls[1].kind = "scan" /\ calls[2].kind = "scan"
    /\ calls[1].tab = calls[2].tab /\ calls[1].url = calls[2].url
    /\ calls[1].pc = "done" /\ calls[2].pc = "fetch"
    /\ stats.totalScans = 0
    /\ ~HasEntry(calls[1].tab)
    /\ fetchCount = 2

\* the scan call c is suspended at one of its awaits
ScanPending(c) == c \in 1..Len(calls) /\ calls[c].kind = "scan" /\ calls[c].pc # "done"

\* a scan call of tab t returns in the step, or a content scan of tab t
\* processes its reply
ScanReturns(t) ==
    \/ lastRet' # NoReturn /\ lastRet'.kind = "scan" /\ lastRet'.tab = t
    \/ \E c \in 1..MaxCalls : ContentReplyProcessed(c) /\ calls[c].tab = t

RiskBadges == {"safe", "warning", "suspicious", "dangerous", "error"}

\* when every awaited promise settles, every scan call returns, leaving a
\* risk level or error as the badge, and the badge is scanning only while a
\* scan call of the tab is pending
ScanningEnds ==
    /\ \A c \in 1..MaxCalls : ScanPending(c) ~> ~ScanPending(c)
    /\ [](\A t \in Tabs :
            badge[t] = "scanning" => \E c \in 1..Len(calls) : ScanPending(c) /\ calls[c].tab = t)
    /\ [][\A c \in 1..MaxCalls :
            (ScanPending(c) /\ ~ScanPending(c)') => badge'[calls[c].tab] \in RiskBadges]_vars

\* C22 as stated: with every engine call returning every scan call returns and
\* leaves a risk level or error as badge, and a scanning badge changes only
\* when a scan (or content scan) of that tab completes.
C22_Original ==
    /\ ScanningEnds
    /\ [][\A t \in Tabs :
            (badge[t] = "scanning" /\ badge'[t] # "scanning") => ScanReturns(t)]_vars

\* C22: with every engine call returning every scan call returns and leaves a
\* risk level or error as badge, never scanning; a scanning badge changes only
\* when a scan (or content scan) of that tab completes, when the tab is
\* activated while it has a cached result, or when a navigation of the tab to
\* an internal page completes.
C22_ScanningLeftOnReturn ==
    /\ ScanningEnds
    /\ [][\A t \in Tabs :
            (badge[t] = "scanning" /\ badge'[t] # "scanning")
            => ScanReturns(t) \/ TabActivated(t) \/ NavInternalPage(t)]_vars

\* two scans of a tab were pending together, both have returned and the badge
\* shows the outcome of one of them
C22_Witness ==
    /\ Len(calls) = 2
    /\ \A c \in 1..2 : calls[c].kind = "scan" /\ calls[c].pc = "done"
    /\ calls[1].tab = calls[2].tab
    /\ fetchCount = 2
    /\ badge[calls[1].tab] \in RiskBadges
    /\ lastRet # NoReturn /\ lastRet.kind = "scan"

\* ------------------------------------------------- the engine's results
\* the backend has analysed its request
Analyzed == request # NoRequest /\ request.result # NotAnalyzed

\* the lower-cased labels of the url's host
HostLabels(url) == [i \in 1..Len(url.host) |-> lower(url.host[i])]

\* the host equals, or is a subdomain of, an entry of the trusted registry
TrustedHost(url) ==
    \E trusted \in TRUSTED_DOMAINS :
       /\ Len(url.host) >= Len(trusted)
       /\ SubSeq(HostLabels(url), Len(url.host) - Len(trusted) + 1, Len(url.host)) = trusted

\* the host is an IPv4 literal
IpLiteralHost(url) == Len(url.host) = 4 /\ \A i \in 1..4 : Digits3(url.host[i])

\* C23: for a url whose host equals or is a subdomain of a trusted entry,
\* analyze returns risk_score 0, risk_level safe and is_phishing false,
\* whatever the scheme, the port and the content signals.
C23_TrustedIsSafe ==
    (Analyzed /\ TrustedHost(request.url)) =>
       /\ request.result.risk_score = 0
       /\ request.result.risk_level = "safe"
       /\ request.result.is_phishing = FALSE

\* a trusted host on a port, over http, with a password form posting elsewhere
C23_Witness ==
    /\ Analyzed
    /\ request.url = [scheme |-> "http", host |-> <<"mail", "google", "com">>, port |-> 8080]
    /\ request.content # NoContent
    /\ request.content.truthy = {"has_password_field", "external_form_action"}
    /\ request.result.risk_score = 0
    /\ "trusted_domain" \in request.result.details

C25_LevelFromScore ==
    Analyzed =>
       LET r == request.result IN
       /\ r.risk_score >= 70 => (r.risk_level = "dangerous" /\ r.is_phishing)
       /\ (r.risk_score >= 40 /\ r.risk_score < 70) => (r.risk_level = "suspicious" /\ r.is_phishing)
       /\ (r.risk_score >= 20 /\ r.risk_score < 40) => (r.risk_level = "warning" /\ ~r.is_phishing)
       /\ r.risk_score < 20 => (r.risk_level = "safe" /\ ~r.is_phishing)

\* a score on a threshold: http alone scores 20, a warning
C25_Witness ==
    /\ Analyzed
    /\ request.result.risk_score = 20
    /\ request.result.risk_level = "warning"
    /\ request.result.is_phishing = FALSE

\* the weights of the checks the claim lists, each triggered by the property
\* of the url or of the content it names
ClaimedScore(url, content) ==
    LET labels == HostLabels(url)
        given == content # NoContent /\ content.keys # {} IN
    (IF IpLiteralHost(url) THEN 40 ELSE 0)
      + (IF Len(labels) > 4 THEN 15 ELSE 0)
      + (IF \E i \in 1..Len(labels) : Substrings(labels[i]) \cap SUSPICIOUS_KEYWORDS # {}
         THEN 10 ELSE 0)
      + (IF labels[Len(labels)] \in SUSPICIOUS_TLDS THEN 25 ELSE 0)
      + (IF url.scheme # "https" THEN 20 ELSE 0)
      + (IF \E i \in 1..Len(labels) : Substrings(labels[i]) \cap BRANDS # {} THEN 30 ELSE 0)
      + (IF given /\ {"has_password_field", "external_form_action"} \subseteq content.truthy
         THEN 25 ELSE 0)
      + (IF given /\ "is_https" \notin content.truthy THEN 10 ELSE 0)

\* C26: for a non-trusted url the score is the sum of the weights of exactly
\* the checks that trigger: IP-literal host 40, more than 4 labels 15, a
\* keyword 10, suspicious TLD 25, non-HTTPS scheme 20, brand token 30,
\* password field with external form action 25, content not HTTPS 10.
C26_ScoreIsSumOfWeights ==
    (Analyzed /\ ~TrustedHost(request.url)) =>
       request.result.risk_score = ClaimedScore(request.url, request.content)

\* C27: for a url whose host is an IPv4 literal, with or without a port, the
\* risk_score is at least 40.
C27_IpLiteralScores40 ==
    (Analyzed /\ IpLiteralHost(request.url)) => request.result.risk_score >= 40

\* the number of checks of analyze that triggered for the request
TriggeredChecks(url, content) ==
    LET h == netloc(url)
        one(b) == IF b THEN 1 ELSE 0 IN
    one(ip_address(h)) + one(excessive_subdomains(h)) + one(keyword_hit(h))
      + one(check_tld(h) > 0) + one(check_https(url.scheme) > 0)
      + one(check_brand_impersonation(h) > 0)
      + one(truthy(content) /\ get(content, "has_password_field")
              /\ get(content, "external_form_action"))
      + one(truthy(content) /\ ~get(content, "is_https"))

\* C28: the warnings list has one entry for each check that triggered, and is
\* empty iff none did.
C28_WarningPerCheck ==
    (Analyzed /\ ~is_trusted(netloc(request.url), registered_domain(request.url))) =>
       Len(request.result.warnings) = TriggeredChecks(request.url, request.content)

\* C29: the step of a scan that issues the persist write has by then replaced
\* the tab's status, appended to the history and incremented the stats (the
\* snapshot it writes holds them) and emits nothing and sets no badge; the
\* badge, the alerts and the scanResult message of the scan come with the
\* step that resumes after the write, which changes none of the three.
C29_UpdatePersistEmit ==
    [][ /\ \A c \in 1..MaxCalls :
              /\ ReplyProcessed(c) =>
                    /\ currentTabStatus'[calls[c].tab] = calls'[c].ret
                    /\ scanHistory'[Len(scanHistory')] = calls'[c].ret
                    /\ stats'.totalScans = stats.totalScans + 1
                    /\ fails' = fails =>
                          /\ stored'.stats = stats'
                          /\ stored'.scanHistory[Len(stored'.scanHistory)] = calls'[c].ret
                    /\ out' = {}
                    /\ badge' = badge
              /\ ScanCompleted(c) =>
                    /\ UNCHANGED <<currentTabStatus, scanHistory, stats, stored>>
                    /\ badge'[calls[c].tab] = calls[c].analysis.risk_level
                    /\ \E m \in out' : m.kind = "scanResult" /\ m.tab = calls[c].tab
        /\ \A m \in out' :
              m.kind = "scanResult" =>
                 \E c \in 1..MaxCalls : ScanCompleted(c) /\ calls[c].tab = m.tab ]_vars

\* the write of a scan has stored its result while the scan has not resumed:
\* the badge still shows scanning
C29_Witness ==
    \E c \in 1..Len(calls) :
       /\ calls[c].kind = "scan" /\ calls[c].pc = "save"
       /\ ~calls[c].saveFailed
       /\ badge[calls[c].tab] = "scanning"
       /\ currentTabStatus[calls[c].tab] = calls[c].ret
       /\ stored # NoSnapshot
       /\ stored.scanHistory # <<>>
       /\ stored.scanHistory[Len(stored.scanHistory)] = calls[c].ret

\* the step completes a loadState that found a stored snapshot
LoadApplied(i) ==
    /\ i \in 1..Len(loads)
    /\ loads[i].pc = "get" /\ loads[i].saved # NoSnapshot
    /\ loads'[i].pc = "done"

\* `short` holds the last Len(short) entries of `long`, in order
IsTail(short, long) ==
    /\ Len(short) <= Len(long)
    /\ \A k \in 1..Len(short) : short[k] = long[Len(long) - Len(short) + k]

\* C30: every snapshot written holds the most recent entries of the in-memory
\* history at the moment of the write, in order, all of them or 100; the
\* history a load installs holds at most 100 entries, the last of the stored.
C30_SnapshotHistory ==
    [][ /\ (stored' # stored) =>
              /\ Len(stored'.scanHistory) <= HistoryCap
              /\ IsTail(stored'.scanHistory, scanHistory')
              /\ Len(stored'.scanHistory) < HistoryCap
                    => Len(stored'.scanHistory) = Len(scanHistory')
        /\ \A i \in 1..MaxLoads :
              LoadApplied(i) =>
                 /\ Len(scanHistory') <= HistoryCap
                 /\ IsTail(scanHistory', loads[i].saved.scanHistory) ]_vars

\* the in-memory history has 101 entries and the snapshot holds the last 100
C30_Witness ==
    /\ Len(scanHistory) = HistoryCap + 1
    /\ stored # NoSnapshot
    /\ Len(stored.scanHistory) = HistoryCap
    /\ stored.scanHistory[HistoryCap] = scanHistory[HistoryCap + 1]
    /\ stored.scanHistory[1] = scanHistory[2]

\* the entry of tab t is an override result (whitelist or blacklist hit)
IsOverrideEntry(t) ==
    /\ HasEntry(t)
    /\ \/ "whitelisted" \in DOMAIN currentTabStatus[t]
       \/ "blacklisted" \in DOMAIN currentTabStatus[t]

\* C31: once scanUrl has stored an override result for a tab, the reply of an
\* engine scan of that tab dispatched before the override result was stored
\* does not replace it. With no reload of the lists a listed domain stays
\* listed, so a waiting engine scan of the url of the override entry was
\* dispatched before that entry was stored.
C31_OverrideSurvivesLateReply ==
    [][\A c \in 1..MaxCalls :
          ( /\ ReplyProcessed(c)
            /\ loads = <<>>
            /\ IsOverrideEntry(calls[c].tab)
            /\ currentTabStatus[calls[c].tab].url = calls[c].url )
          => currentTabStatus'[calls[c].tab] = currentTabStatus[calls[c].tab]]_vars

\* C32: an entry flagged whitelisted has risk level safe, score 0 and
\* is_phishing false; an entry flagged blacklisted has risk level dangerous
\* and score 100.
C32_OverrideEntryValues ==
    \A t \in Tabs :
       HasEntry(t) =>
          /\ "whitelisted" \in DOMAIN currentTabStatus[t] =>
                /\ currentTabStatus[t].risk_level = "safe"
                /\ currentTabStatus[t].risk_score = 0
                /\ currentTabStatus[t].is_phishing = FALSE
          /\ "blacklisted" \in DOMAIN currentTabStatus[t] =>
                /\ currentTabStatus[t].risk_level = "dangerous"
                /\ currentTabStatus[t].risk_score = 100

\* C33: threatsBlocked never exceeds totalScans.
C33_ThreatsWithinScans == stats.threatsBlocked <= stats.totalScans

\* after the step every invocation for tab t is an engine scan that has returned
OnlyFinishedScans(t) ==
    \A c \in 1..Len(calls') :
       calls'[c].tab = t => calls'[c].kind = "scan" /\ calls'[c].pc = "done"

\* after the step the entry of tab t is the plain result of an engine scan
EngineEntry(t) ==
    /\ currentTabStatus'[t] # Absent
    /\ "timestamp" \in DOMAIN currentTabStatus'[t]
    /\ "contentScanned" \notin DOMAIN currentTabStatus'[t]

\* C34: when an engine scan of a tab completes and leaves no scan of the tab in
\* flight, the tab's badge shows the risk level of the tab's stored status,
\* also when overlapping scans had their persist writes return in another
\* order than their engine replies. Read for a stored status that is itself an
\* engine scan result (no override result, no content merge).
C34_BadgeShowsStoredLevel ==
    [][\A c \in 1..MaxCalls :
          ( /\ ScanCompleted(c)
            /\ OnlyFinishedScans(calls[c].tab)
            /\ EngineEntry(calls[c].tab) )
          => badge'[calls[c].tab] = currentTabStatus'[calls[c].tab].risk_level]_vars

\* the step sends scan call's request to the engine for tab t
ScanDispatched(t, url) == ScanCalled(t, url) /\ Len(calls') = Len(calls) + 1

\* C35: a scan that fails (the engine call throws or answers non-2xx) leaves
\* the tab status map and the history as they were: neither the step that
\* sends the request nor the step that handles the failure changes them, so
\* the cached result of the tab stays and no history entry is appended.
C35_FailedScanKeepsState ==
    [][( \/ ScanFailed
         \/ \E t \in Tabs, u \in Urls : ScanDispatched(t, u) )
       => /\ currentTabStatus' = currentTabStatus
          /\ scanHistory' = scanHistory]_vars

\* a forced rescan of a tab with a cached engine result has just failed
C35_Witness ==
    /\ lastRet # NoReturn
    /\ lastRet.kind = "scan"
    /\ "error" \in DOMAIN lastRet.value
    /\ HasEntry(lastRet.tab)
    /\ "timestamp" \in DOMAIN currentTabStatus[lastRet.tab]
    /\ currentTabStatus[lastRet.tab].url = lastRet.url
    /\ Len(scanHistory) = 1

C37_GetHistoryRecentFirst ==
    [][GetHistory =>
          LET history == lastRet'.value.history
              n == Len(scanHistory)
              k == IF n < 20 THEN n ELSE 20 IN
          /\ Len(history) = k
          /\ \A i \in 1..k : history[i] = scanHistory[n + 1 - i]
          /\ UNCHANGED <<isEnabled, settings, whitelist, blacklist, stats, scanHistory,
                         currentTabStatus, stored, calls, loads, badge, fetchCount>>]_vars

\* getHistory has answered with 20 entries out of a history of more than 20
\* whose newest entry, a scan of this session, comes first
C37_Witness ==
    /\ lastRet # NoReturn
    /\ lastRet.kind = "getHistory"
    /\ Len(scanHistory) > 20
    /\ Len(lastRet.value.history) = 20
    /\ lastRet.value.history[1] = scanHistory[Len(scanHistory)]
    /\ lastRet.value.history[1].tabId \in Tabs
    /\ lastRet.value.history[2].tabId \notin Tabs

\* C38: within one page load the content script creates at most one
\* full-screen alert overlay: once one has been shown, no showWarning message,
\* contentScan response or credential-field focus adds another, also after
\* the first one has been dismissed and removed.
C38_AtMostOneOverlay ==
    /\ page.created <= 1
    /\ Cardinality(page.attached) <= 1
    /\ page.created = 1 => page.hasShownAlert

\* the one overlay has been dismissed and removed, and a showWarning message
\* handled after that has shown nothing
C38_Witness ==
    /\ page.created = 1
    /\ page.alertOverlay = 0
    /\ page.attached = {}
    /\ page.timers = 0
    /\ page.last = "showWarning"
====
